---- MODULE Spec2Model ----
(***************************************************************************)
(* CLIAgent (cli_agent.py): the command-safety gate execute_command, the   *)
(* question pipeline answer_question and the bounded conversation history. *)
(* Text is modelled as a sequence of one-character strings, so that the    *)
(* string surgery of the pipeline (strip, split, startswith, join, slices) *)
(* is computed the way Python computes it. The working_directory argument  *)
(* only travels to validate_command and to subprocess.run and is left out. *)
(***************************************************************************)
EXTENDS Integers, Sequences, FiniteSets, TLC

VARIABLES
    conversation_history, \* self.conversation_history
    memory_file,          \* content of the file self.memory_file on disk
    disk_writable,        \* whether open(self.memory_file, 'wb') succeeds
    clock,                \* datetime.now(), counted in insertions
    inserted,             \* history: every record ever appended, in order
    calls,                \* history: number of tool calls made so far
    pc,                   \* position of the answer_question run in progress
    question,             \* answer_question: its argument
    command,              \* answer_question: the local variable command
    exec_result,          \* answer_question: the local variable exec_result
    first_reply,          \* history: the text of the first reply, once it is there
    first_candidate,      \* history: command after the cleanup of the first reply
    fallback_reply,       \* history: the text of the stricter prompt's reply, once there
    synth_calls,          \* history: synthesis prompts issued in this run
    fallback_calls,       \* history: fallback prompts issued in this run
    compose_calls,        \* history: composition prompts issued in this run
    faults,               \* history: exceptions raised in this run, in order
    gate,                 \* history: the last execute_command call
    gate_calls,           \* history: execute_command calls made by this run
    spawned,              \* history: subprocess.run calls made by this tool call
    returned,             \* history: what the last tool call gave its caller
    threads,              \* the worker threads of asyncio.to_thread, each inside
                          \* an answer_question run: where it is in
                          \* _add_to_memory, and its local values
    session_id,           \* self.session_id, when it is the default: the second
                          \* the agent was constructed in
    disk,                 \* the memory files of the other sessions, by session id
    restart               \* history: the restarts so far; what the process that
                          \* stopped last had recorded and left persisted, and
                          \* what the running one loaded at its start

vars == << conversation_history, memory_file, disk_writable, clock,
           inserted, calls, pc,
           question, command, exec_result, first_reply, first_candidate,
           fallback_reply, synth_calls, fallback_calls, compose_calls, faults,
           gate, gate_calls, spawned, returned, threads,
           session_id, disk, restart >>

\* the build and the process: what no tool call changes
ProcessVars == << session_id, disk, restart >>

\* the state of the one run the tool-call actions follow step by step
PipelineVars ==
    << calls, pc, question, command, exec_result, first_reply, first_candidate,
       fallback_reply, synth_calls, fallback_calls, compose_calls, faults,
       gate, gate_calls, spawned, returned >>

----------------------------------------------------------------------------
(* Bounds of the model *)

\* tool calls (execute_command or answer_question) in one behaviour
MaxCalls == 2

(* Program constants *)

\* len(self.conversation_history) > 20
HistoryLimit == 20
\* result.stdout[:200]
SummaryLimit == 200

\* Python's None
None == [none |-> TRUE]

----------------------------------------------------------------------------
(* Python's str operations on sequences of characters *)

\* the character U+0060, which a TLA+ string literal cannot hold
Backtick == "backtick"

Whitespace == {" ", "\n", "\t"}
QuoteChars == {Backtick, "\"", "'"}

RECURSIVE LStrip(_, _)
LStrip(s, cs) ==
    IF s # <<>> /\ Head(s) \in cs THEN LStrip(Tail(s), cs) ELSE s

RECURSIVE RStrip(_, _)
RStrip(s, cs) ==
    IF s # <<>> /\ s[Len(s)] \in cs THEN RStrip(SubSeq(s, 1, Len(s) - 1), cs) ELSE s

\* s.strip(chars)
StripChars(s, cs) == RStrip(LStrip(s, cs), cs)

\* s.strip()
Strip(s) == StripChars(s, Whitespace)

\* s.startswith(p)
StartsWith(s, p) == Len(s) >= Len(p) /\ SubSeq(s, 1, Len(p)) = p

\* index of the first character of s that is in cs, 0 when there is none
FirstIndex(s, cs) ==
    IF \E i \in 1..Len(s) : s[i] \in cs
    THEN CHOOSE i \in 1..Len(s) : s[i] \in cs /\ \A j \in 1..(i - 1) : s[j] \notin cs
    ELSE 0

\* s.split('\n')
RECURSIVE SplitLines(_)
SplitLines(s) ==
    LET i == FirstIndex(s, {"\n"})
    IN  IF i = 0 THEN << s >>
        ELSE << SubSeq(s, 1, i - 1) >> \o SplitLines(SubSeq(s, i + 1, Len(s)))

\* s.split()
RECURSIVE Split(_)
Split(s) ==
    LET t == LStrip(s, Whitespace)
        i == FirstIndex(t, Whitespace)
    IN  IF t = <<>> THEN <<>>
        ELSE IF i = 0 THEN << t >>
        ELSE << SubSeq(t, 1, i - 1) >> \o Split(SubSeq(t, i + 1, Len(t)))

\* ' '.join(parts)
RECURSIVE Join(_)
Join(parts) ==
    IF parts = <<>> THEN <<>>
    ELSE IF Len(parts) = 1 THEN parts[1]
    ELSE parts[1] \o << " " >> \o Join(Tail(parts))

\* s[:n]
Take(s, n) == SubSeq(s, 1, IF Len(s) < n THEN Len(s) ELSE n)

\* seq[-n:]
LastN(seq, n) ==
    IF Len(seq) <= n THEN seq ELSE SubSeq(seq, Len(seq) - n + 1, Len(seq))

----------------------------------------------------------------------------
(* String literals of the program *)

\* the markdown fence, three backticks
Fence ==
    <<Backtick,Backtick,Backtick>>

\* the comment marker
Hash ==
    <<"#">>

prefixes_to_remove ==
    << <<"T","o"," ","c","h","e","c","k">>,
       <<"T","o"," ","s","e","e">>,
       <<"T","o"," ","f","i","n","d">>,
       <<"T","o"," ","g","e","t">>,
       <<"T","o"," ","l","i","s","t">>,
       <<"T","o"," ","s","h","o","w">>,
       <<"T","o"," ","d","i","s","p","l","a","y">>,
       <<"R","u","n","n","i","n","g",":">>,
       <<"E","x","e","c","u","t","e",":">>,
       <<"C","o","m","m","a","n","d",":">>,
       <<"U","s","e",":">>,
       <<"T","r","y",":">>,
       <<"R","u","n",":">> >>

\* command_used of the except branch
Unknown ==
    <<"u","n","k","n","o","w","n">>

\* error_msg of a blocked command, before the blocked_reason
CommandBlockedPrefix ==
    <<"C","o","m","m","a","n","d"," ","b","l","o","c","k","e","d",":"," ">>

PausedMessage ==
    <<"E","x","e","c","u","t","i","o","n"," ","p","a","u","s","e","d"," ","-"," ","c","o","n","f","i","r","m","a","t","i","o","n"," ","r","e","q","u","i","r","e","d">>

\* error_msg of the except branch, before str(e)
SorryPrefix ==
    <<"S","o","r","r","y",","," ","I"," ","c","o","u","l","d","n","'","t"," ","p","r","o","c","e","s","s"," ","y","o","u","r"," ","q","u","e","s","t","i","o","n",":"," ">>

(* Texts the environment supplies: commands, model replies, process output *)

Cmd_pwd ==
    <<"p","w","d">>

Cmd_rm ==
    <<"r","m"," ","-","r","f"," ","/">>

Cmd_kill ==
    <<"k","i","l","l"," ","-","9"," ","1">>

Reply_pwd ==
    <<"p","w","d","\n">>

Reply_rm ==
    <<Backtick,"r","m"," ","-","r","f"," ","/",Backtick>>

Reply_kill ==
    <<"k","i","l","l"," ","-","9"," ","1">>

Reply_empty ==
    <<>>

Reply_quoted_blank ==
    <<"\""," ","\"">>

Reply_fenced_pwd ==
    <<Backtick,Backtick,Backtick,"\n","p","w","d","\n",Backtick,Backtick,Backtick>>

Tail_files_ls ==
    <<" ","f","i","l","e","s",":"," ","l","s"," ","-","l","a">>

Tail_ls_la ==
    <<" ","l","s"," ","-","l","a">>

Tail_ls ==
    <<" ","l","s">>

Tail_glued ==
    <<"o","u","t"," ","x"," ","y">>

Out_home ==
    <<"/","h","o","m","e","/","u","s","e","r","\n">>

Err_not_found ==
    <<"l","s",":"," ","c","a","n","n","o","t"," ","a","c","c","e","s","s"," ","'","x","'",":"," ","N","o"," ","s","u","c","h"," ","f","i","l","e"," ","o","r"," ","d","i","r","e","c","t","o","r","y","\n">>

Exc_oserror ==
    <<"[","E","r","r","n","o"," ","1","2","]"," ","C","a","n","n","o","t"," ","a","l","l","o","c","a","t","e"," ","m","e","m","o","r","y">>

Exc_model ==
    <<"A","n"," ","e","r","r","o","r"," ","o","c","c","u","r","r","e","d"," ","(","T","h","r","o","t","t","l","i","n","g","E","x","c","e","p","t","i","o","n",")"," ","w","h","e","n"," ","c","a","l","l","i","n","g"," ","t","h","e"," ","I","n","v","o","k","e","M","o","d","e","l"," ","o","p","e","r","a","t","i","o","n">>

Answer_text ==
    <<" ","Y","o","u"," ","a","r","e"," ","i","n"," ","/","h","o","m","e","/","u","s","e","r","."," ">>

Reason_blocked ==
    <<"R","e","c","u","r","s","i","v","e"," ","f","o","r","c","e","d"," ","d","e","l","e","t","i","o","n"," ","o","f"," ","t","h","e"," ","f","i","l","e","s","y","s","t","e","m"," ","r","o","o","t">>

Reason_risky ==
    <<"P","r","o","c","e","s","s","-","k","i","l","l","i","n","g"," ","a","t"," ","s","y","s","t","e","m"," ","s","c","o","p","e">>

Reason_safe ==
    <<"N","o"," ","d","a","n","g","e","r","o","u","s"," ","p","a","t","t","e","r","n","s"," ","d","e","t","e","c","t","e","d">>

----------------------------------------------------------------------------
(* The environment: what callers, the model service, the process executor  *)
(* and the disk can supply                                                 *)

\* a process output longer than the summary limit
Out_long == [i \in 1..(SummaryLimit + 1) |-> "x"]

Questions == {"what is my current directory"}

\* commands a caller passes to execute_command directly
DirectCommands == {Cmd_pwd, Cmd_rm, Cmd_kill}

\* result['content'][0]['text'] of the first synthesis prompt
FirstTexts ==
    {Reply_pwd, Reply_rm, Reply_kill, Reply_empty, Reply_quoted_blank}

\* what may follow a filler prefix in the first line of a reply
PrefixTails == {Tail_files_ls, Tail_ls_la, Tail_ls, Tail_glued, <<>>}

\* replies whose first line starts with a prefix of prefixes_to_remove
PrefixedTexts ==
    {prefixes_to_remove[i] \o tail : i \in 1..Len(prefixes_to_remove), tail \in PrefixTails}

\* retry_result['content'][0]['text'] of the stricter prompt
FallbackTexts == {Reply_fenced_pwd, Reply_empty}

\* answer_result['content'][0]['text']
AnswerTexts == {Answer_text}

\* str(e) of an exception raised by bedrock.invoke_model
ModelErrors == {Exc_model}

\* what subprocess.run does: a CompletedProcess, or an exception
ProcessOutcomes ==
    { [kind |-> "completed", stdout |-> Out_long, stderr |-> <<>>, returncode |-> 0],
      [kind |-> "completed", stdout |-> <<>>, stderr |-> Err_not_found, returncode |-> 1],
      [kind |-> "raised", message |-> Exc_oserror] }

\* an answer of the model, and a message of an exception of subprocess.run,
\* longer than the summary limit
Answer_long == [i \in 1..(SummaryLimit + 1) |-> "y"]
Exc_long == [i \in 1..(SummaryLimit + 1) |-> "e"]

LongAnswerTexts == {Answer_long}
LongExceptionOutcomes == { [kind |-> "raised", message |-> Exc_long] }

\* the exit codes of a shell a signal ended: subprocess.run reports the
\* death by signal N as returncode -N (1 is SIGHUP, 2 is SIGINT)
SignalOutcomes ==
    { [kind |-> "completed", stdout |-> <<>>, stderr |-> <<>>, returncode |-> -n] :
          n \in {1, 2} }

\* the memory file before the process starts: absent, unreadable, or the
\* history a previous process of the same session saved
NoFile == [file |-> "absent"]
Corrupt == [file |-> "corrupt"]
Pickled(history) == [file |-> "pickle", history |-> history]

StoredRecord(i) ==
    [timestamp |-> i, type |-> "command", input |-> Cmd_pwd,
     output |-> Out_home, success |-> TRUE]

StoredHistory(n) == [i \in 1..n |-> StoredRecord(i)]

InitialFiles == {NoFile, Corrupt, Pickled(StoredHistory(HistoryLimit - 1))}

----------------------------------------------------------------------------
(* safety_guardrails.SafetyGuardrails.validate_command: the risk           *)
(* classifier, a pure function of the command text                         *)

DeniedCommands == {Cmd_rm}
RiskyCommands == {Cmd_kill}

validate_command(cmd) ==
    IF cmd \in DeniedCommands
    THEN [risk_level |-> "critical", allowed |-> FALSE, requires_confirmation |-> TRUE,
          reason |-> Reason_blocked, blocked_reason |-> Reason_blocked]
    ELSE IF cmd \in RiskyCommands
    THEN [risk_level |-> "high", allowed |-> TRUE, requires_confirmation |-> TRUE,
          reason |-> Reason_risky, blocked_reason |-> <<>>]
    ELSE [risk_level |-> "safe", allowed |-> TRUE, requires_confirmation |-> FALSE,
          reason |-> Reason_safe, blocked_reason |-> <<>>]

----------------------------------------------------------------------------
(* InteractionMemory: _load_memory, _save_memory, _add_to_memory *)

\* _load_memory: the pickled history, [] when the file is absent or unreadable
load_memory(file) ==
    IF file.file = "pickle" THEN file.history ELSE <<>>

\* _save_memory: the file after the dump; an open() that fails is swallowed
\* and leaves the file as it was
save_memory(file, history, can_write) ==
    IF can_write THEN Pickled(history) ELSE file

\* add_to_memory, the cut keeping the first 20 records instead of the last
add_to_memory_KeepsOldest(history, now, interaction_type, input_data, output_data, success) ==
    LET appended == Append(history,
                       [timestamp |-> now, type |-> interaction_type,
                        input |-> input_data, output |-> output_data,
                        success |-> success])
    IN  IF Len(appended) > HistoryLimit
        THEN SubSeq(appended, 1, HistoryLimit)
        ELSE appended

\* _add_to_memory: the history after the append and the cut to the last 20
add_to_memory(history, now, interaction_type, input_data, output_data, success) ==
    LET appended == Append(history,
                       [timestamp |-> now, type |-> interaction_type,
                        input |-> input_data, output |-> output_data,
                        success |-> success])
    IN  IF Len(appended) > HistoryLimit
        THEN LastN(appended, HistoryLimit)
        ELSE appended

\* the record _add_to_memory appends
MemoryRecord(now, interaction_type, input_data, output_data, success) ==
    [timestamp |-> now, type |-> interaction_type, input |-> input_data,
     output |-> output_data, success |-> success]

----------------------------------------------------------------------------
(* SafetyGate: CLIAgent.execute_command *)

\* SafetyValidation, asking for the confirmation before looking at allowed
SafetyValidation_ConfirmationFirst(cmd, force) ==
    IF force
    THEN [validated |-> 0, path |-> "run"]
    ELSE LET validation == validate_command(cmd)
         IN  [validated |-> 1,
              path |-> IF validation.requires_confirmation THEN "paused"
                       ELSE IF ~validation.allowed THEN "blocked"
                       ELSE "run"]

\* SafetyValidation, the pause falling through to the execution
SafetyValidation_NoPause(cmd, force) ==
    IF force
    THEN [validated |-> 0, path |-> "run"]
    ELSE LET validation == validate_command(cmd)
         IN  [validated |-> 1,
              path |-> IF ~validation.allowed THEN "blocked" ELSE "run"]

\* SafetyValidation, the force argument not looked at
SafetyValidation_ForceIgnored(cmd, force) ==
    LET validation == validate_command(cmd)
    IN  [validated |-> 1,
         path |-> IF ~validation.allowed THEN "blocked"
                  ELSE IF validation.requires_confirmation THEN "paused"
                  ELSE "run"]

\* the safety validation: how often validate_command is called, and the way
\* the call takes: "blocked", "paused", or "run" (on to subprocess.run)
SafetyValidation(cmd, force) ==
    IF force
    THEN [validated |-> 0, path |-> "run"]
    ELSE LET validation == validate_command(cmd)
         IN  [validated |-> 1,
              path |-> IF ~validation.allowed THEN "blocked"
                       ELSE IF validation.requires_confirmation THEN "paused"
                       ELSE "run"]

\* ExecutionResult, the exception reported with the exit code of a failed
\* command
ExecutionResult_ExceptionAsExit(cmd, force, po) ==
    LET path == SafetyValidation(cmd, force).path
        validation == validate_command(cmd)
    IN  CASE path = "blocked" ->
               [command |-> cmd, stdout |-> <<>>,
                stderr |-> CommandBlockedPrefix \o validation.blocked_reason,
                return_code |-> -1, success |-> FALSE, blocked |-> TRUE,
                risk_level |-> validation.risk_level]
          [] path = "paused" ->
               [command |-> cmd, stdout |-> <<>>, stderr |-> PausedMessage,
                return_code |-> -2, success |-> FALSE,
                requires_confirmation |-> TRUE,
                risk_level |-> validation.risk_level]
          [] path = "run" /\ po.kind = "completed" ->
               [command |-> cmd, stdout |-> po.stdout, stderr |-> po.stderr,
                return_code |-> po.returncode, success |-> (po.returncode = 0)]
          [] path = "run" /\ po.kind = "raised" ->
               [command |-> cmd, stdout |-> <<>>, stderr |-> po.message,
                return_code |-> 1, success |-> FALSE]

\* the dictionary execute_command returns; po is what subprocess.run does
ExecutionResult(cmd, force, po) ==
    LET path == SafetyValidation(cmd, force).path
        validation == validate_command(cmd)
    IN  CASE path = "blocked" ->
               [command |-> cmd, stdout |-> <<>>,
                stderr |-> CommandBlockedPrefix \o validation.blocked_reason,
                return_code |-> -1, success |-> FALSE, blocked |-> TRUE,
                risk_level |-> validation.risk_level]
          [] path = "paused" ->
               [command |-> cmd, stdout |-> <<>>, stderr |-> PausedMessage,
                return_code |-> -2, success |-> FALSE,
                requires_confirmation |-> TRUE,
                risk_level |-> validation.risk_level]
          [] path = "run" /\ po.kind = "completed" ->
               [command |-> cmd, stdout |-> po.stdout, stderr |-> po.stderr,
                return_code |-> po.returncode, success |-> (po.returncode = 0)]
          [] path = "run" /\ po.kind = "raised" ->
               [command |-> cmd, stdout |-> <<>>, stderr |-> po.message,
                return_code |-> -1, success |-> FALSE]

\* the output_data and success execute_command hands to _add_to_memory
CommandMemory(cmd, force, po) ==
    LET path == SafetyValidation(cmd, force).path
    IN  CASE path = "blocked" ->
               [output |-> CommandBlockedPrefix \o validate_command(cmd).blocked_reason,
                success |-> FALSE]
          [] path = "paused" ->
               [output |-> PausedMessage, success |-> FALSE]
          [] path = "run" /\ po.kind = "completed" ->
               [output |-> IF po.stdout # <<>>
                           THEN Take(po.stdout, SummaryLimit)
                           ELSE Take(po.stderr, SummaryLimit),
                success |-> (po.returncode = 0)]
          [] path = "run" /\ po.kind = "raised" ->
               [output |-> po.message, success |-> FALSE]

\* d.get(key) is True
IsTrue(d, key) == key \in DOMAIN d /\ d[key] = TRUE

\* Remember, the failure of the save undoing the append
Remember_FailedSaveLosesRecord(interaction_type, input_data, output_data, success) ==
    LET history == add_to_memory(conversation_history, clock + 1,
                       interaction_type, input_data, output_data, success)
    IN  /\ conversation_history' = IF disk_writable THEN history
                                   ELSE conversation_history
        /\ memory_file' = save_memory(memory_file, history, disk_writable)
        /\ clock' = clock + 1
        /\ inserted' = Append(inserted,
                           MemoryRecord(clock + 1, interaction_type,
                               input_data, output_data, success))
        /\ UNCHANGED disk_writable

\* one _add_to_memory call: the append, the cut and the save
Remember(interaction_type, input_data, output_data, success) ==
    LET history == add_to_memory(conversation_history, clock + 1,
                       interaction_type, input_data, output_data, success)
    IN  /\ conversation_history' = history
        /\ memory_file' = save_memory(memory_file, history, disk_writable)
        /\ clock' = clock + 1
        /\ inserted' = Append(inserted,
                           MemoryRecord(clock + 1, interaction_type,
                               input_data, output_data, success))
        /\ UNCHANGED disk_writable

\* execute_command, the paused call returning without its record
execute_command_PausedUnrecorded(cmd, force, po) ==
    LET validation == SafetyValidation(cmd, force)
        memory == CommandMemory(cmd, force, po)
    IN  /\ IF validation.path = "paused"
           THEN UNCHANGED << conversation_history, memory_file, disk_writable,
                             clock, inserted >>
           ELSE Remember("command", cmd, memory.output, memory.success)
        /\ gate' = [called |-> TRUE, command |-> cmd, force |-> force,
                    validated |-> validation.validated,
                    spawned |-> IF validation.path = "run" THEN 1 ELSE 0,
                    result |-> ExecutionResult(cmd, force, po)]

\* one call of execute_command, whole
execute_command(cmd, force, po) ==
    LET validation == SafetyValidation(cmd, force)
        memory == CommandMemory(cmd, force, po)
    IN  /\ Remember("command", cmd, memory.output, memory.success)
        /\ gate' = [called |-> TRUE, command |-> cmd, force |-> force,
                    validated |-> validation.validated,
                    spawned |-> IF validation.path = "run" THEN 1 ELSE 0,
                    result |-> ExecutionResult(cmd, force, po)]

\* the exception subprocess.run raised in this call, if any
ExecutionFaults(cmd, force, po) ==
    IF SafetyValidation(cmd, force).path = "run" /\ po.kind = "raised"
    THEN << [step |-> "execution", detail |-> po.message] >>
    ELSE <<>>

----------------------------------------------------------------------------
(* CommandSynthesizer: the cleanup of the model's reply in answer_question *)

\* the first line that is not blank, a markdown fence or a comment, stripped
RECURSIVE ActualCommand(_)
ActualCommand(command_lines) ==
    IF command_lines = <<>> THEN <<>>
    ELSE LET line == Strip(Head(command_lines))
         IN  IF line # <<>> /\ ~StartsWith(line, Fence) /\ ~StartsWith(line, Hash)
             THEN line
             ELSE ActualCommand(Tail(command_lines))

\* RemovePrefix, cutting the characters of the prefix that matched
RemovePrefix_CutsPrefixOnly(cmd) ==
    LET matching == {i \in 1..Len(prefixes_to_remove) :
                        StartsWith(cmd, prefixes_to_remove[i])}
        first == CHOOSE i \in matching : \A j \in matching : i <= j
    IN  IF matching # {}
        THEN Join(Split(SubSeq(cmd, Len(prefixes_to_remove[first]) + 1, Len(cmd))))
        ELSE cmd

\* the loop over prefixes_to_remove: at the first prefix the command starts
\* with, parts[2:] when there are more than two parts, and the loop ends
RemovePrefix(cmd) ==
    LET parts == Split(cmd)
    IN  IF \E i \in 1..Len(prefixes_to_remove) : StartsWith(cmd, prefixes_to_remove[i])
        THEN IF Len(parts) > 2
             THEN Join(SubSeq(parts, 3, Len(parts)))
             ELSE cmd
        ELSE cmd

\* the command the first reply is cleaned up to
CleanReply(text) ==
    LET stripped == Strip(text)
        actual_command == ActualCommand(SplitLines(stripped))
    IN  StripChars(RemovePrefix(Strip(actual_command)), QuoteChars)

\* NeedsFallback, a single token counted as no command
NeedsFallback_OneToken(cmd) ==
    \/ cmd = <<>>
    \/ StartsWith(cmd, Fence)
    \/ Len(Split(cmd)) <= 1

\* the retry condition
NeedsFallback(cmd) ==
    \/ cmd = <<>>
    \/ StartsWith(cmd, Fence)
    \/ Len(Split(cmd)) < 1

\* the command the reply to the stricter prompt is taken as
FallbackCommand(text) == StripChars(Strip(text), QuoteChars)

----------------------------------------------------------------------------
(* QuestionPipeline: CLIAgent.answer_question, one action per step between *)
(* two calls of a collaborator                                             *)

\* TryCovers, the try block ending before the composition call
TryCovers_UntilGate(step) == step \in {"synthesis", "fallback", "execution"}

\* the steps the try block encloses
TryCovers(step) == step \in {"synthesis", "fallback", "execution", "composition"}

\* Apology, the except branch handing out the execution result it has
Apology_KeepsRawOutput(q, detail) ==
    [question |-> q, command_used |-> Unknown, answer |-> SorryPrefix \o detail,
     raw_output |-> exec_result, success |-> FALSE]

\* the dictionary the except branch returns
Apology(q, detail) ==
    [question |-> q, command_used |-> Unknown, answer |-> SorryPrefix \o detail,
     raw_output |-> None, success |-> FALSE]

\* Answer, command_used taken from the cleanup of the first reply
Answer_ReportsFirstCandidate(q, cmd, answer, result) ==
    [question |-> q, command_used |-> first_candidate, answer |-> answer,
     raw_output |-> result, success |-> result.success]

\* the dictionary the run returns when no step raised
Answer(q, cmd, answer, result) ==
    [question |-> q, command_used |-> cmd, answer |-> answer,
     raw_output |-> result, success |-> result.success]

\* Raise, the except branch returning its apology without recording it
Raise_Unrecorded(step, detail) ==
    /\ faults' = Append(faults, [step |-> step, detail |-> detail])
    /\ pc' = "idle"
    /\ returned' = [op |-> "answer_question", outcome |-> "return",
                    result |-> Apology(question, detail)]
    /\ UNCHANGED << conversation_history, memory_file, disk_writable,
                    clock, inserted >>

\* an exception raised at a step of the run: the except branch records and
\* returns the apology; outside the try block it would reach the caller
Raise(step, detail) ==
    /\ faults' = Append(faults, [step |-> step, detail |-> detail])
    /\ pc' = "idle"
    /\ IF TryCovers(step)
       THEN /\ Remember("question", question, SorryPrefix \o detail, FALSE)
            /\ returned' = [op |-> "answer_question", outcome |-> "return",
                            result |-> Apology(question, detail)]
       ELSE /\ returned' = [op |-> "answer_question", outcome |-> "raise",
                            exception |-> detail]
            /\ UNCHANGED << conversation_history, memory_file, disk_writable,
                            clock, inserted >>

NotReturned == [op |-> "none"]
NotCalled == [called |-> FALSE]

\* the transport, or the agent framework, calls the tool answer_question:
\* the first synthesis prompt is sent
AnswerQuestionCall ==
    /\ pc = "idle"
    /\ UNCHANGED << threads, ProcessVars >>
    /\ calls < MaxCalls
    /\ calls' = calls + 1
    /\ \E q \in Questions : question' = q
    /\ pc' = "synthesis"
    /\ command' = <<>>
    /\ exec_result' = None
    /\ first_reply' = <<>>
    /\ first_candidate' = <<>>
    /\ fallback_reply' = <<>>
    /\ synth_calls' = 1
    /\ fallback_calls' = 0
    /\ compose_calls' = 0
    /\ faults' = <<>>
    /\ gate' = NotCalled
    /\ gate_calls' = 0
    /\ spawned' = 0
    /\ returned' = NotReturned
    /\ UNCHANGED << conversation_history, memory_file, disk_writable, clock,
                    inserted >>

\* the first model call raises
SynthesisFails ==
    /\ pc = "synthesis"
    /\ UNCHANGED << threads, ProcessVars >>
    /\ \E e \in ModelErrors : Raise("synthesis", e)
    /\ UNCHANGED << calls, question, command, exec_result, first_reply,
                    first_candidate, fallback_reply,
                    synth_calls, fallback_calls, compose_calls, gate,
                    gate_calls, spawned >>

\* the first model call replies: the cleanup, then the gate or the stricter
\* prompt
SynthesisRepliesWith(texts) ==
    /\ pc = "synthesis"
    /\ UNCHANGED << threads, ProcessVars >>
    /\ \E text \in texts :
          LET candidate == CleanReply(text)
          IN  /\ first_reply' = << text >>
              /\ first_candidate' = candidate
              /\ command' = candidate
              /\ IF NeedsFallback(candidate)
                 THEN /\ pc' = "fallback"
                      /\ synth_calls' = synth_calls + 1
                      /\ fallback_calls' = fallback_calls + 1
                 ELSE /\ pc' = "gate"
                      /\ UNCHANGED << synth_calls, fallback_calls >>
    /\ UNCHANGED << conversation_history, memory_file, disk_writable, clock,
                    inserted, calls, question, exec_result, fallback_reply,
                    compose_calls, faults, gate, gate_calls, spawned, returned >>

SynthesisReplies == SynthesisRepliesWith(FirstTexts)

\* the first model call replies with a line that starts with a filler prefix
SynthesisRepliesPrefixed == SynthesisRepliesWith(PrefixedTexts)

\* the stricter model call raises
FallbackFails ==
    /\ pc = "fallback"
    /\ UNCHANGED << threads, ProcessVars >>
    /\ \E e \in ModelErrors : Raise("fallback", e)
    /\ UNCHANGED << calls, question, command, exec_result, first_reply,
                    first_candidate, fallback_reply,
                    synth_calls, fallback_calls, compose_calls, gate,
                    gate_calls, spawned >>

\* FallbackReplies, a reply that is no command ending the run with an apology
FallbackReplies_Aborts ==
    /\ pc = "fallback"
    /\ UNCHANGED << threads, ProcessVars >>
    /\ \E text \in FallbackTexts :
          /\ fallback_reply' = << text >>
          /\ command' = FallbackCommand(text)
          /\ IF NeedsFallback(FallbackCommand(text))
             THEN /\ Raise("fallback", FallbackCommand(text))
                  /\ UNCHANGED << gate >>
             ELSE /\ pc' = "gate"
                  /\ UNCHANGED << conversation_history, memory_file,
                                  disk_writable, clock, inserted, faults,
                                  gate, returned >>
    /\ UNCHANGED << calls, question, exec_result, first_reply, first_candidate,
                    synth_calls, fallback_calls, compose_calls, gate_calls,
                    spawned >>

\* the stricter model call replies: its text is the command
FallbackReplies ==
    /\ pc = "fallback"
    /\ UNCHANGED << threads, ProcessVars >>
    /\ \E text \in FallbackTexts :
          /\ fallback_reply' = << text >>
          /\ command' = FallbackCommand(text)
    /\ pc' = "gate"
    /\ UNCHANGED << conversation_history, memory_file, disk_writable, clock,
                    inserted, calls, question, exec_result, first_reply,
                    first_candidate, synth_calls, fallback_calls, compose_calls,
                    faults, gate, gate_calls, spawned, returned >>

\* PipelineForce, the pipeline overriding the gate
PipelineForce_True == TRUE

\* the force argument answer_question passes to execute_command (its default)
PipelineForce == FALSE

\* GateStep, the gate called while the reply to the stricter prompt is
\* still awaited
GateStep_BeforeFallbackReply ==
    /\ pc \in {"fallback", "gate"}
    /\ UNCHANGED << threads, ProcessVars >>
    /\ \E po \in ProcessOutcomes :
          /\ execute_command(command, PipelineForce, po)
          /\ exec_result' = ExecutionResult(command, PipelineForce, po)
          /\ faults' = faults \o ExecutionFaults(command, PipelineForce, po)
    /\ gate_calls' = gate_calls + 1
    /\ spawned' = spawned + gate'.spawned
    /\ compose_calls' = compose_calls + 1
    /\ pc' = "composition"
    /\ UNCHANGED << calls, question, command, first_reply, first_candidate,
                    fallback_reply, synth_calls,
                    fallback_calls, returned >>

\* self.execute_command(command, working_directory), then the answer prompt
\* is sent
GateStep ==
    /\ pc = "gate"
    /\ UNCHANGED << threads, ProcessVars >>
    /\ \E po \in ProcessOutcomes :
          /\ execute_command(command, PipelineForce, po)
          /\ exec_result' = ExecutionResult(command, PipelineForce, po)
          /\ faults' = faults \o ExecutionFaults(command, PipelineForce, po)
    /\ gate_calls' = gate_calls + 1
    /\ spawned' = spawned + gate'.spawned
    /\ compose_calls' = compose_calls + 1
    /\ pc' = "composition"
    /\ UNCHANGED << calls, question, command, first_reply, first_candidate,
                    fallback_reply, synth_calls,
                    fallback_calls, returned >>

\* the composition model call raises
CompositionFails ==
    /\ pc = "composition"
    /\ UNCHANGED << threads, ProcessVars >>
    /\ \E e \in ModelErrors : Raise("composition", e)
    /\ UNCHANGED << calls, question, command, exec_result, first_reply,
                    first_candidate, fallback_reply,
                    synth_calls, fallback_calls, compose_calls, gate,
                    gate_calls, spawned >>

\* the composition model call replies: the record, the return
CompositionRepliesWith(texts) ==
    /\ pc = "composition"
    /\ UNCHANGED << threads, ProcessVars >>
    /\ \E text \in texts :
          LET answer == Strip(text)
          IN  /\ Remember("question", question, answer, exec_result.success)
              /\ returned' = [op |-> "answer_question", outcome |-> "return",
                              result |-> Answer(question, command, answer, exec_result)]
    /\ pc' = "idle"
    /\ UNCHANGED << calls, question, command, exec_result, first_reply,
                    first_candidate, fallback_reply,
                    synth_calls, fallback_calls, compose_calls, faults, gate,
                    gate_calls, spawned >>

CompositionReplies == CompositionRepliesWith(AnswerTexts)

\* the composition model call replies, possibly at length
CompositionRepliesLong ==
    CompositionRepliesWith(AnswerTexts \cup LongAnswerTexts)

\* a caller (the agent framework) calls the tool execute_command directly
ExecuteCommandCallWith(outcomes) ==
    /\ pc = "idle"
    /\ UNCHANGED << threads, ProcessVars >>
    /\ calls < MaxCalls
    /\ calls' = calls + 1
    /\ \E cmd \in DirectCommands, force \in BOOLEAN, po \in outcomes :
          /\ execute_command(cmd, force, po)
          /\ faults' = ExecutionFaults(cmd, force, po)
          /\ returned' = [op |-> "execute_command", outcome |-> "return",
                          result |-> ExecutionResult(cmd, force, po)]
    /\ spawned' = gate'.spawned
    /\ gate_calls' = 0
    /\ synth_calls' = 0
    /\ fallback_calls' = 0
    /\ compose_calls' = 0
    /\ UNCHANGED << pc, question, command, exec_result, first_reply,
                    first_candidate, fallback_reply >>

ExecuteCommandCall == ExecuteCommandCallWith(ProcessOutcomes)

\* a direct call in which subprocess.run may also raise with a long message
ExecuteCommandCallLong ==
    ExecuteCommandCallWith(ProcessOutcomes \cup LongExceptionOutcomes)

\* a direct call whose process may also be ended by a signal
ExecuteCommandCallSignalled ==
    ExecuteCommandCallWith(ProcessOutcomes \cup SignalOutcomes)

----------------------------------------------------------------------------
(* The transport: call_agent hands each request to a worker thread with    *)
(* asyncio.to_thread(cli_agent.answer_question, ...), all on the one       *)
(* module-level CLIAgent. A run touches the shared history only inside     *)
(* _add_to_memory, so a thread is followed through its _add_to_memory      *)
(* calls, one action per step between two points where the interpreter can *)
(* switch threads.                                                         *)

\* requests in flight at the same time
MaxThreads == 2

Threads == 1..MaxThreads

\* a run that failed at a model call before the gate records its apology; a
\* run that reached the gate records the command, then the question
RunKinds == {"failed", "answered"}

NotStarted == [pc |-> "idle", run |-> "none", adds |-> 0, tmp |-> <<>>, buffer |-> <<>>]

\* the record the thread appends in its current _add_to_memory call
ThreadRecord(t, now) ==
    LET th == threads[t]
    IN  IF th.run = "failed"
        THEN MemoryRecord(now, "question", "what is my current directory",
                 SorryPrefix \o Exc_model, FALSE)
        ELSE IF th.adds = 2
        THEN MemoryRecord(now, "command", Cmd_pwd, Out_home, TRUE)
        ELSE MemoryRecord(now, "question", "what is my current directory",
                 Strip(Answer_text), TRUE)

\* the thread's _add_to_memory call returns: on to the next one, or the run
\* is over
AfterSave(th) ==
    [th EXCEPT !.adds = th.adds - 1,
               !.pc = IF th.adds > 1 THEN "append" ELSE "done",
               !.tmp = <<>>, !.buffer = <<>>]

\* asyncio.to_thread: a worker thread starts a run of answer_question
RunStarts(t) ==
    /\ threads[t].pc = "idle"
    /\ \E kind \in RunKinds :
          threads' = [threads EXCEPT ![t] =
                         [@ EXCEPT !.pc = "append", !.run = kind,
                                   !.adds = IF kind = "failed" THEN 1 ELSE 2]]
    /\ UNCHANGED << conversation_history, memory_file, disk_writable, clock,
                    inserted, ProcessVars, PipelineVars >>

\* line 72: self.conversation_history.append({...})
ThreadAppend(t) ==
    /\ threads[t].pc = "append"
    /\ conversation_history' = Append(conversation_history, ThreadRecord(t, clock + 1))
    /\ inserted' = Append(inserted, ThreadRecord(t, clock + 1))
    /\ clock' = clock + 1
    /\ threads' = [threads EXCEPT ![t].pc = "len"]
    /\ UNCHANGED << memory_file, disk_writable, ProcessVars, PipelineVars >>

\* line 80: if len(self.conversation_history) > 20
ThreadTestsLength(t) ==
    /\ threads[t].pc = "len"
    /\ threads' = [threads EXCEPT ![t].pc =
                       IF Len(conversation_history) > HistoryLimit
                       THEN "cut" ELSE "open"]
    /\ UNCHANGED << conversation_history, memory_file, disk_writable, clock,
                    inserted, ProcessVars, PipelineVars >>

\* line 81, the right-hand side self.conversation_history[-20:]. Whether
\* another thread can run between this and the assignment is up to the
\* build; where it cannot, the two steps always follow each other.
ThreadSlices(t) ==
    /\ threads[t].pc = "cut"
    /\ threads' = [threads EXCEPT
                       ![t].pc = "store",
                       ![t].tmp = LastN(conversation_history, HistoryLimit)]
    /\ UNCHANGED << conversation_history, memory_file, disk_writable, clock, inserted, ProcessVars,
                    PipelineVars >>

\* line 81, the assignment self.conversation_history = ...
ThreadAssigns(t) ==
    /\ threads[t].pc = "store"
    /\ conversation_history' = threads[t].tmp
    /\ threads' = [threads EXCEPT ![t].pc = "open"]
    /\ UNCHANGED << memory_file, disk_writable, clock, inserted, ProcessVars,
                    PipelineVars >>

\* line 65: open(self.memory_file, 'wb') empties the file; when it raises,
\* _save_memory swallows the exception and returns
ThreadOpens(t) ==
    /\ threads[t].pc = "open"
    /\ IF disk_writable
       THEN /\ memory_file' = Corrupt
            /\ threads' = [threads EXCEPT ![t].pc = "dump"]
       ELSE /\ threads' = [threads EXCEPT ![t] = AfterSave(@)]
            /\ UNCHANGED memory_file
    /\ UNCHANGED << conversation_history, disk_writable, clock, inserted,
                    ProcessVars, PipelineVars >>

\* line 66: pickle.dump(self.conversation_history, f) serialises the list
\* as it is now into the buffer of f
ThreadDumps(t) ==
    /\ threads[t].pc = "dump"
    /\ threads' = [threads EXCEPT ![t].pc = "close",
                                  ![t].buffer = conversation_history]
    /\ UNCHANGED << conversation_history, memory_file, disk_writable, clock,
                    inserted, ProcessVars, PipelineVars >>

\* the end of the with block: f is closed, its buffer is written from the
\* start of the file, and pickle.load will read this dump back
ThreadCloses(t) ==
    /\ threads[t].pc = "close"
    /\ memory_file' = Pickled(threads[t].buffer)
    /\ threads' = [threads EXCEPT ![t] = AfterSave(@)]
    /\ UNCHANGED << conversation_history, disk_writable, clock, inserted,
                    ProcessVars, PipelineVars >>

----------------------------------------------------------------------------
(* The process: main.py constructs the agent once, at import, with         *)
(* CLIAgent(safe_mode=True); the session id is then the default of line 40, *)
(* the time of construction to the second.                                 *)

\* the last second a process starts in, counted from the first start
MaxSecond == 2

\* starts of the process after the first
MaxRestarts == 1

Seconds == 0..MaxSecond

\* the first start: nothing stopped before it, and line 42 loaded the file
FirstStart(file) ==
    [count |-> 0, recorded |-> 0, persisted |-> <<>>, loaded |-> load_memory(file)]

\* the process stops between two tool calls and is started again:
\* CLIAgent.__init__ names the memory file after the new session id (lines
\* 40-41) and loads the history from it (line 42)
ProcessRestarts ==
    /\ pc = "idle"
    /\ restart.count < MaxRestarts
    /\ \E now \in Seconds :
          /\ now >= session_id
          /\ session_id' = now
          /\ disk' = [disk EXCEPT ![session_id] = memory_file]
          /\ memory_file' = disk'[now]
          /\ conversation_history' = load_memory(disk'[now])
          /\ inserted' = load_memory(disk'[now])
          /\ clock' = Len(load_memory(disk'[now]))
          /\ restart' = [count |-> restart.count + 1,
                         recorded |-> Len(inserted) - Len(restart.loaded),
                         persisted |-> load_memory(memory_file),
                         loaded |-> load_memory(disk'[now])]
    /\ question' = ""
    /\ command' = <<>>
    /\ exec_result' = None
    /\ first_reply' = <<>>
    /\ first_candidate' = <<>>
    /\ fallback_reply' = <<>>
    /\ synth_calls' = 0
    /\ fallback_calls' = 0
    /\ compose_calls' = 0
    /\ faults' = <<>>
    /\ gate' = NotCalled
    /\ gate_calls' = 0
    /\ spawned' = 0
    /\ returned' = NotReturned
    /\ UNCHANGED << disk_writable, calls, pc, threads >>

----------------------------------------------------------------------------

\* CLIAgent.__init__: the history is loaded from the memory file. The disk
\* takes the saves for the whole life of the process, or refuses them all.
Init ==
    /\ memory_file \in InitialFiles
    /\ disk_writable \in BOOLEAN
    /\ conversation_history = load_memory(memory_file)
    /\ clock = Len(conversation_history)
    /\ inserted = conversation_history
    /\ calls = 0
    /\ pc = "idle"
    /\ question = ""
    /\ command = <<>>
    /\ exec_result = None
    /\ first_reply = <<>>
    /\ first_candidate = <<>>
    /\ fallback_reply = <<>>
    /\ synth_calls = 0
    /\ fallback_calls = 0
    /\ compose_calls = 0
    /\ faults = <<>>
    /\ gate = NotCalled
    /\ gate_calls = 0
    /\ spawned = 0
    /\ returned = NotReturned
    /\ threads = [t \in Threads |-> NotStarted]
    /\ session_id = 0
    /\ disk = [s \in Seconds |-> NoFile]
    /\ restart = FirstStart(memory_file)

Next ==
    \/ ExecuteCommandCall
    \/ AnswerQuestionCall
    \/ SynthesisFails
    \/ SynthesisReplies
    \/ FallbackFails
    \/ FallbackReplies
    \/ GateStep
    \/ CompositionFails
    \/ CompositionReplies

Spec == Init /\ [][Next]_vars

\* the run up to the cleanup of a first reply that starts with a filler prefix
SynthesisNext ==
    \/ AnswerQuestionCall
    \/ SynthesisRepliesPrefixed

SynthesisSpec == Init /\ [][SynthesisNext]_vars

\* direct calls of execute_command, over every outcome of subprocess.run
GateNext == ExecuteCommandCallSignalled

GateSpec == Init /\ [][GateNext]_vars

\* tool calls whose answers and exception messages may exceed the summary
\* limit, no model call failing
SummaryNext ==
    \/ ExecuteCommandCallLong
    \/ AnswerQuestionCall
    \/ SynthesisReplies
    \/ FallbackReplies
    \/ GateStep
    \/ CompositionRepliesLong

SummarySpec == Init /\ [][SummaryNext]_vars

\* direct calls of execute_command, the process stopping and starting again
RestartNext ==
    \/ ExecuteCommandCall
    \/ ProcessRestarts

RestartSpec == Init /\ [][RestartNext]_vars

\* concurrent runs of answer_question on the shared agent
ConcurrentNext ==
    \E t \in Threads :
        \/ RunStarts(t)
        \/ ThreadAppend(t)
        \/ ThreadTestsLength(t)
        \/ ThreadSlices(t)
        \/ ThreadAssigns(t)
        \/ ThreadOpens(t)
        \/ ThreadDumps(t)
        \/ ThreadCloses(t)

ConcurrentSpec == Init /\ [][ConcurrentNext]_vars

----------------------------------------------------------------------------
(* The safety gate *)

\* the verdict the classifier gives the command of the last execute_command
GateVerdict == validate_command(gate.command)

\* C1: a call execute_command(command, cwd, force=false) whose verdict has
\* allowed=false never invokes subprocess.run, and its result has
\* return_code=-1, blocked=true and success=false.
C1_BlockedNeverRuns ==
    (gate.called /\ ~gate.force /\ ~GateVerdict.allowed) =>
        /\ gate.spawned = 0
        /\ gate.result.return_code = -1
        /\ IsTrue(gate.result, "blocked")
        /\ gate.result.success = FALSE

C1_Witness ==
    /\ gate.called
    /\ ~gate.force
    /\ ~GateVerdict.allowed
    /\ GateVerdict.requires_confirmation
    /\ IsTrue(gate.result, "blocked")

\* C2: a call execute_command(command, cwd, force=false) whose verdict has
\* allowed=true and requires_confirmation=true never invokes subprocess.run,
\* and its result has return_code=-2, requires_confirmation=true and
\* success=false; nothing retries it: the tool call it is part of makes no
\* other execute_command call and spawns nothing, and such a command is
\* spawned only by a call made with force=true.
C2_PausedNeverRuns ==
    /\ (gate.called /\ ~gate.force /\ GateVerdict.allowed
            /\ GateVerdict.requires_confirmation) =>
          /\ gate.spawned = 0
          /\ spawned = 0
          /\ gate_calls <= 1
          /\ gate.result.return_code = -2
          /\ IsTrue(gate.result, "requires_confirmation")
          /\ gate.result.success = FALSE
    /\ (gate.called /\ gate.spawned > 0 /\ GateVerdict.allowed
            /\ GateVerdict.requires_confirmation) =>
          /\ gate.force
          /\ returned.op = "execute_command"

C2_Witness ==
    /\ pc = "idle"
    /\ returned.op = "answer_question"
    /\ gate.called
    /\ ~gate.force
    /\ GateVerdict.allowed
    /\ GateVerdict.requires_confirmation
    /\ gate.result.return_code = -2

\* C3: a call execute_command(command, cwd, force=true) never invokes
\* validate_command and always attempts subprocess.run, whatever verdict the
\* classifier would give the command.
C3_ForceSkipsValidation ==
    (gate.called /\ gate.force) =>
        /\ gate.validated = 0
        /\ gate.spawned = 1

C3_Witness ==
    /\ gate.called
    /\ gate.force
    /\ ~GateVerdict.allowed
    /\ gate.spawned = 1
    /\ gate.validated = 0

----------------------------------------------------------------------------
(* The question pipeline *)

\* an answer_question call has just returned to its caller
AnswerReturned == pc = "idle" /\ returned.op = "answer_question"

\* the run made its execute_command call
GatePassed == gate_calls = 1 /\ gate.called

\* a model call of the run raised at this step
Failed(step) == \E i \in DOMAIN faults : faults[i].step = step

\* the result is the apology of the except branch, for this failure detail
IsApology(result, detail) ==
    /\ result.success = FALSE
    /\ result.command_used = Unknown
    /\ result.answer = SorryPrefix \o detail
    /\ result.raw_output = None

\* C4 as stated: a run whose synthesized command is denied passes it with
\* force=false, spawns nothing, and returns success=false with
\* raw_output.blocked=true.
C4_BlockedRunReportsBlock ==
    (AnswerReturned /\ GatePassed /\ ~GateVerdict.allowed) =>
        /\ ~gate.force
        /\ spawned = 0
        /\ returned.result.success = FALSE
        /\ IsTrue(returned.result.raw_output, "blocked")

\* C4, amended: a run whose synthesized command is denied passes it with
\* force=false, spawns nothing and returns success=false; raw_output is the
\* blocked execution result when the composition call replies, and absent
\* when the composition call raises.
C4_BlockedRunNeverExecutes ==
    (AnswerReturned /\ GatePassed /\ ~GateVerdict.allowed) =>
        /\ ~gate.force
        /\ gate.validated = 1
        /\ spawned = 0
        /\ returned.result.success = FALSE
        /\ IF Failed("composition")
           THEN returned.result.raw_output = None
           ELSE /\ returned.result.raw_output = gate.result
                /\ IsTrue(returned.result.raw_output, "blocked")

C4_Witness ==
    /\ AnswerReturned
    /\ GatePassed
    /\ ~GateVerdict.allowed
    /\ ~Failed("composition")
    /\ IsTrue(returned.result.raw_output, "blocked")
    /\ spawned = 0

----------------------------------------------------------------------------
(* The conversation history *)

\* C5: the history holds at most 20 records, and it is always the most
\* recent min(n, 20) of the n records inserted so far, in insertion order.
C5_HistoryIsLastTwenty ==
    /\ Len(conversation_history) <= HistoryLimit
    /\ conversation_history = LastN(inserted, HistoryLimit)

C5_Witness ==
    /\ Len(inserted) = HistoryLimit + 2
    /\ Len(conversation_history) = HistoryLimit
    /\ conversation_history[HistoryLimit].type = "question"
    /\ conversation_history[HistoryLimit - 1].type = "command"
    /\ conversation_history[1] = inserted[3]

----------------------------------------------------------------------------
(* Failures in the pipeline *)

\* the exceptions the model calls of the run raised
ModelFaults == SelectSeq(faults, LAMBDA f : f.step # "execution")

\* C6 as stated: a failure at any step of the run (synthesis, fallback,
\* execution, composition) yields a returned result with success=false,
\* command_used="unknown", the apology with the failure detail, and no
\* raw_output.
C6_AnyFailureYieldsApology ==
    (AnswerReturned /\ faults # <<>>) =>
        /\ returned.outcome = "return"
        /\ IsApology(returned.result, faults[Len(faults)].detail)

\* C6, amended: answer_question never propagates an exception. A model call
\* that raises (synthesis, fallback, composition) yields success=false,
\* command_used="unknown", the apology with that failure's detail, and no
\* raw_output. An exception of the process executor is absorbed by
\* execute_command: unless a model call raises as well, the run returns the
\* composed answer with command_used the synthesized command, raw_output the
\* execution result (return_code=-1, stderr the exception message) and
\* success=false.
C6_ModelFailureYieldsApology ==
    AnswerReturned =>
        /\ returned.outcome = "return"
        /\ returned.result.question = question
        /\ ModelFaults # <<>> =>
              /\ Len(ModelFaults) = 1
              /\ IsApology(returned.result, ModelFaults[1].detail)
        /\ (ModelFaults = <<>> /\ faults # <<>>) =>
              /\ GatePassed
              /\ returned.result.command_used = gate.command
              /\ returned.result.raw_output = gate.result
              /\ gate.result.return_code = -1
              /\ gate.result.stderr = faults[1].detail
              /\ returned.result.success = FALSE
              /\ \E text \in AnswerTexts : returned.result.answer = Strip(text)

C6_Witness ==
    /\ AnswerReturned
    /\ Failed("execution")
    /\ Failed("composition")
    /\ returned.result.command_used = Unknown
    /\ returned.result.raw_output = None

\* the cleaned text is no command: empty, a markdown fence, or zero tokens
Unusable(cmd) ==
    \/ cmd = <<>>
    \/ StartsWith(cmd, Fence)
    \/ Split(cmd) = <<>>

\* the model has replied to the stricter prompt
FallbackReplied == fallback_calls = 1 /\ fallback_reply # <<>>

\* the replies to both synthesis prompts were unusable
BothUnusable ==
    /\ FallbackReplied
    /\ Unusable(first_candidate)
    /\ Unusable(FallbackCommand(fallback_reply[1]))

\* C7 as stated: when the replies to the first prompt and to the stricter
\* prompt are both unusable, the run aborts before execution:
\* execute_command and subprocess.run are never invoked, and the result is
\* the apology.
C7_UnusableTwiceAborts ==
    BothUnusable =>
        /\ gate_calls = 0
        /\ spawned = 0
        /\ pc # "composition"
        /\ AnswerReturned => returned.result.command_used = Unknown

\* C7, amended: when the replies to the first prompt and to the stricter
\* prompt are both unusable, the run does not abort: the trimmed,
\* quote-stripped text of the second reply is the command, passed once to
\* execute_command with force=false, and the run goes on to composition; the
\* result is the apology only when the composition call raises.
C7_UnusableTwiceStillExecutes ==
    BothUnusable =>
        /\ pc \in {"gate", "composition", "idle"}
        /\ command = FallbackCommand(fallback_reply[1])
        /\ pc \in {"composition", "idle"} =>
              /\ GatePassed
              /\ gate.command = command
              /\ ~gate.force
              /\ gate.validated = 1
              /\ spawned = gate.spawned
        /\ AnswerReturned =>
              IF Failed("composition")
              THEN returned.result.command_used = Unknown
              ELSE /\ returned.result.command_used = command
                   /\ returned.result.raw_output = gate.result

C7_Witness ==
    /\ BothUnusable
    /\ AnswerReturned
    /\ GatePassed
    /\ gate.command = <<>>
    /\ spawned = 1
    /\ returned.result.command_used = <<>>

\* C8 as stated: when the composition call fails after the gate call, the
\* result carries the apology and raw_output is the execution result of
\* the run.
C8_CompositionFailureKeepsRawOutput ==
    (AnswerReturned /\ GatePassed /\ Failed("composition")) =>
        /\ returned.result.answer = SorryPrefix \o ModelFaults[1].detail
        /\ returned.result.raw_output = gate.result

\* C8, amended: when the composition call fails after the gate call, the
\* result carries the apology, command_used="unknown" and no raw_output: the
\* execution result does not reach the caller, and what is kept of it is the
\* 'command' record execute_command appended to the history, just before
\* the 'question' record of the failure.
C8_CompositionFailureDropsRawOutput ==
    (AnswerReturned /\ GatePassed /\ Failed("composition")) =>
        /\ returned.result.answer = SorryPrefix \o ModelFaults[1].detail
        /\ returned.result.command_used = Unknown
        /\ returned.result.raw_output = None
        /\ returned.result.success = FALSE
        /\ LET n == Len(inserted)
           IN  /\ n >= 2
               /\ inserted[n].type = "question"
               /\ inserted[n].success = FALSE
               /\ inserted[n - 1].type = "command"
               /\ inserted[n - 1].input = gate.command
               /\ inserted[n - 1].success = gate.result.success

C8_Witness ==
    /\ AnswerReturned
    /\ GatePassed
    /\ Failed("composition")
    /\ gate.spawned = 1
    /\ gate.result.success
    /\ returned.result.raw_output = None

----------------------------------------------------------------------------
(* Synthesis *)

\* the model has replied to the first prompt
SynthesisReplied == synth_calls >= 1 /\ first_reply # <<>>

\* the first line of the reply that is not blank, a fence or a comment
FirstCommandLine == ActualCommand(SplitLines(Strip(first_reply[1])))

\* the listed prefixes the line starts with
MatchingPrefixes(line) ==
    {i \in 1..Len(prefixes_to_remove) : StartsWith(line, prefixes_to_remove[i])}

\* the line without its first listed prefix and without the one token that
\* follows the prefix
PrefixAndOneTokenDropped(line) ==
    LET i == CHOOSE k \in MatchingPrefixes(line) :
                 \A j \in MatchingPrefixes(line) : k <= j
        rest == SubSeq(line, Len(prefixes_to_remove[i]) + 1, Len(line))
        tokens == Split(rest)
    IN  IF tokens = <<>> THEN <<>> ELSE Join(Tail(tokens))

\* the line without its first two whitespace-separated tokens, when it has
\* more than two, and whole otherwise
FirstTwoTokensDropped(line) ==
    LET parts == Split(line)
    IN  IF Len(parts) > 2 THEN Join(SubSeq(parts, 3, Len(parts))) ELSE line

\* the first listed prefix the line starts with
FirstPrefix(line) ==
    prefixes_to_remove[CHOOSE k \in MatchingPrefixes(line) :
                          \A j \in MatchingPrefixes(line) : k <= j]

\* the prefix is made of whole tokens of the line
AtTokenBoundary(line, prefix) ==
    SubSeq(Split(line), 1, Len(Split(prefix))) = Split(prefix)

\* the command the code makes of the reply To list files: ls -la
Cmd_files_ls ==
    <<"f","i","l","e","s",":"," ","l","s"," ","-","l","a">>

\* the command the reply To list files: ls -la is said to give
Cmd_ls ==
    <<"l","s"," ","-","l","a">>

C10_SingleFallback ==
    /\ fallback_calls <= 1
    /\ synth_calls <= 2
    /\ synth_calls <= 1 + fallback_calls
    /\ fallback_calls = 1 => (SynthesisReplied /\ Unusable(first_candidate))
    /\ (GatePassed /\ fallback_calls = 1) =>
          /\ FallbackReplied
          /\ gate.command = FallbackCommand(fallback_reply[1])
    /\ (GatePassed /\ fallback_calls = 0) => gate.command = first_candidate

C10_Witness ==
    /\ AnswerReturned
    /\ GatePassed
    /\ fallback_calls = 1
    /\ synth_calls = 2
    /\ first_candidate = << " " >>
    /\ Unusable(gate.command)

----------------------------------------------------------------------------
(* The records of execute_command *)

\* the record appended last
LastInserted == inserted[Len(inserted)]

\* the way the last execute_command call ended
GateEnding ==
    IF IsTrue(gate.result, "blocked") THEN "blocked"
    ELSE IF IsTrue(gate.result, "requires_confirmation") THEN "paused"
    ELSE IF \E i \in DOMAIN faults : faults[i].step = "execution" THEN "exception"
    ELSE "completed"

\* C11: every call of execute_command, direct or made by answer_question,
\* forced or not, blocked, paused, completed or ended by an exception of
\* subprocess.run, appends exactly one record to the history, of type
\* 'command' and with the command as its input, and the record is the last
\* of the history when the call returns.
C11_EveryCallRecordsOnce ==
    [][(ExecuteCommandCall \/ GateStep) =>
          /\ Len(inserted') = Len(inserted) + 1
          /\ SubSeq(inserted', 1, Len(inserted)) = inserted
          /\ inserted'[Len(inserted')].type = "command"
          /\ inserted'[Len(inserted')].input = gate'.command
          /\ conversation_history' # <<>>
          /\ conversation_history'[Len(conversation_history')] =
                 inserted'[Len(inserted')]]_vars

C11_Witness ==
    /\ returned.op = "execute_command"
    /\ gate.called /\ ~gate.force
    /\ GateEnding = "paused"
    /\ LastInserted.type = "command"
    /\ LastInserted.input = gate.command
    /\ LastInserted.output = PausedMessage
    /\ calls = 2
    /\ Len(inserted) = Len(load_memory(NoFile)) + 2

\* the exception subprocess.run raised in the last execute_command call
ExecutionFault == faults[CHOOSE i \in DOMAIN faults : faults[i].step = "execution"]

\* C12: when subprocess.run raises inside execute_command, the call returns
\* the dictionary with return_code=-1, stdout empty, stderr = the message of
\* the exception and success=false; nothing reaches the caller as an
\* exception, whether the caller is the tool user or answer_question, which
\* gets the dictionary as its exec_result.
C12_ExecutionExceptionIsReturned ==
    (gate.called /\ GateEnding = "exception") =>
        /\ gate.result = [command |-> gate.command, stdout |-> <<>>,
                           stderr |-> ExecutionFault.detail,
                           return_code |-> -1, success |-> FALSE]
        /\ returned.op = "execute_command" =>
               (returned.outcome = "return" /\ returned.result = gate.result)
        /\ gate_calls = 1 => exec_result = gate.result
        /\ (AnswerReturned /\ Len(faults) = 1) =>
               (returned.outcome = "return" /\ returned.result.raw_output = gate.result)

C12_Witness ==
    /\ returned.op = "execute_command"
    /\ gate.called /\ gate.force
    /\ gate.spawned = 1
    /\ GateEnding = "exception"
    /\ gate.result.return_code = -1
    /\ gate.result.stderr = Exc_oserror

\* the last execute_command call went on to subprocess.run, which returned
NormalCompletion == gate.spawned = 1 /\ GateEnding = "completed"

\* C13: of a result of execute_command exactly one of blocked, paused and
\* run (handed to subprocess.run) holds; success is true exactly when
\* return_code is 0 and the call was neither blocked nor paused; and a
\* command that subprocess.run completed never has the return code -1 or -2
\* of a block, an exception or a pause, whatever exit code the process had.
C13_SentinelsAreUnambiguous ==
    gate.called =>
        LET result == gate.result
            blocked == IsTrue(result, "blocked")
            paused == IsTrue(result, "requires_confirmation")
            run == gate.spawned = 1
        IN  /\ Cardinality({k \in {"blocked", "paused", "run"} :
                    \/ k = "blocked" /\ blocked
                    \/ k = "paused" /\ paused
                    \/ k = "run" /\ run}) = 1
            /\ result.success <=> (result.return_code = 0 /\ ~blocked /\ ~paused)
            /\ NormalCompletion => result.return_code \notin {-1, -2}

----------------------------------------------------------------------------
(* Concurrent runs *)

\* every run handed to a worker thread has finished
AllRunsFinished == \A t \in Threads : threads[t].pc = "done"

\* the number of records the finished runs appended
AppendedByRuns ==
    Cardinality({t \in Threads : threads[t].run = "failed"})
        + 2 * Cardinality({t \in Threads : threads[t].run = "answered"})

\* the histories a serial order of the appends leaves: the loaded records,
\* then the appended ones in some order, cut to the last 20
SerialHistories ==
    LET k == AppendedByRuns
        loaded == SubSeq(inserted, 1, Len(inserted) - k)
        appended == SubSeq(inserted, Len(inserted) - k + 1, Len(inserted))
    IN  { LET all == loaded \o [i \in 1..k |-> appended[order[i]]]
          IN  IF Len(all) > HistoryLimit THEN LastN(all, HistoryLimit) ELSE all :
              order \in Permutations(1..k) }

\* C14: when all the concurrent runs of answer_question have finished, the
\* history is what some serial order of their appends leaves (the last
\* min(n, 20) of the n records, none lost, none evicted twice), and the
\* memory file, where the disk takes the saves, holds that history.
C14_ConcurrentRunsLoseNothing ==
    AllRunsFinished =>
        /\ conversation_history \in SerialHistories
        /\ disk_writable => load_memory(memory_file) = conversation_history

----------------------------------------------------------------------------
(* Restarts *)

\* C15: after the process recorded interactions, stopped and was started
\* again by the transport (no explicit session id), the history loaded at
\* the start is the history that was last persisted before the stop.
C15_HistorySurvivesRestart ==
    (restart.count > 0 /\ restart.recorded > 0) =>
        restart.loaded = restart.persisted

----------------------------------------------------------------------------
(* The records of the history *)

\* C16: every record of the conversation history, whichever operation and
\* outcome made it, has an output of at most 200 characters.
C16_SummariesAreBounded ==
    \A i \in DOMAIN conversation_history :
        Len(conversation_history[i].output) <= SummaryLimit

----------------------------------------------------------------------------
(* Persistence faults *)

\* a model call of the run raised
ModelCallFailed == ModelFaults # <<>>

\* C17: a history file that is absent or unreadable at the start gives an
\* empty history; and where every save fails, a tool call still returns,
\* with the result the successful save would have let it return (the
\* dictionary of the gate for execute_command; for answer_question the
\* composed answer over the gate's result, or the apology of a failed model
\* call, never an apology for the save), the record it made is the last of
\* the history in memory, and the file is as it was at the start.
C17_PersistenceFaultsAreSwallowed ==
    /\ (calls = 0 /\ memory_file.file # "pickle") => conversation_history = <<>>
    /\ (~disk_writable /\ returned.op # "none") =>
          /\ returned.outcome = "return"
          /\ load_memory(memory_file) = restart.loaded
          /\ Len(inserted) > Len(restart.loaded)
          /\ conversation_history # <<>>
          /\ conversation_history[Len(conversation_history)] = LastInserted
          /\ returned.op = "execute_command" =>
                 /\ returned.result = gate.result
                 /\ LastInserted.type = "command"
                 /\ LastInserted.input = gate.command
          /\ returned.op = "answer_question" =>
                 /\ LastInserted.type = "question"
                 /\ LastInserted.output = returned.result.answer
                 /\ IF ModelCallFailed
                    THEN IsApology(returned.result, faults[Len(faults)].detail)
                    ELSE /\ gate_calls = 1
                         /\ returned.result =
                                Answer(question, command, LastInserted.output, gate.result)

C17_Witness ==
    /\ ~disk_writable
    /\ memory_file = Corrupt
    /\ AnswerReturned
    /\ ~ModelCallFailed
    /\ returned.result.success
    /\ Len(conversation_history) = 2
    /\ LastInserted.type = "question"

----------------------------------------------------------------------------
(* The run of answer_question, end to end *)

\* C18: when no model call of the run raised, the dictionary answer_question
\* returns has command_used = the command the gate was called with,
\* raw_output = the dictionary that call returned and success = its
\* success; so a command the executor ran with exit code 0 gives
\* success=true.
C18_AnswerReportsTheGateCall ==
    (AnswerReturned /\ ~ModelCallFailed) =>
        /\ gate_calls = 1 /\ gate.called
        /\ returned.outcome = "return"
        /\ returned.result.question = question
        /\ returned.result.command_used = gate.command
        /\ returned.result.raw_output = gate.result
        /\ returned.result.success = gate.result.success
        /\ (gate.spawned = 1 /\ GateEnding = "completed"
                /\ gate.result.return_code = 0) => returned.result.success

C18_Witness ==
    /\ AnswerReturned
    /\ faults = <<>>
    /\ question = "what is my current directory"
    /\ gate.command = Cmd_pwd
    /\ gate.spawned = 1
    /\ returned.result.command_used = Cmd_pwd
    /\ returned.result.raw_output.return_code = 0
    /\ returned.result.success

\* a step that appends a 'question' record
QuestionRecorded ==
    /\ Len(inserted') = Len(inserted) + 1
    /\ inserted'[Len(inserted')].type = "question"

\* a step in which execute_command is called by the run
GateCalled == gate_calls' = gate_calls + 1

\* a step in which the composition prompt is sent
CompositionCalled == compose_calls' = compose_calls + 1

\* a step that ends the run
RunEnds == pc # "idle" /\ pc' = "idle"

\* the order of the gate and the composition, and the steps of a run in
\* which no model call raised
StepsInOrder ==
    /\ CompositionCalled => (gate_calls' = 1 /\ exec_result' = gate'.result)
    /\ GateCalled =>
          /\ pc = "gate"
          /\ first_reply # <<>>
          /\ fallback_calls = 1 => fallback_reply # <<>>
          /\ gate'.command = command
    /\ gate_calls' <= 1 /\ compose_calls' <= 1 /\ fallback_calls' <= 1
    /\ (RunEnds /\ ModelFaults' = <<>>) =>
          /\ synth_calls = 1 + fallback_calls
          /\ gate_calls = 1
          /\ compose_calls = 1
          /\ pc = "composition"

\* C19 as stated: in a run the composition call is made only once the gate
\* call has returned, the gate call only once synthesis (with its fallback)
\* is over, the 'question' record is appended only after composition, and
\* on the path where nothing fails every step happens once.
C19_StepsStrictlyOrdered ==
    [][StepsInOrder /\ (QuestionRecorded => pc = "composition")]_vars

\* C19, amended: as stated, except that the 'question' record is appended
\* after composition only when synthesis did not fail; when the synthesis
\* or the fallback model call raises, the record is appended right then, and
\* neither the gate nor the composition is ever called in that run.
C19_StepsOrderedUnlessSynthesisFails ==
    [][/\ StepsInOrder
       /\ QuestionRecorded =>
             \/ pc = "composition"
             \/ /\ pc \in {"synthesis", "fallback"}
                /\ Len(faults') = Len(faults) + 1
                /\ faults'[Len(faults')].step = pc
                /\ gate_calls' = 0 /\ compose_calls' = 0]_vars

C19_Witness ==
    /\ AnswerReturned
    /\ faults = <<>>
    /\ synth_calls = 2 /\ fallback_calls = 1
    /\ gate_calls = 1 /\ compose_calls = 1
    /\ LastInserted.type = "question"
    /\ LastInserted.success

\* C20: a run of answer_question appends a 'question' record in the step
\* that ends it and in no other, whether it ends with the answer or with the
\* apology of a failed model call, and execute_command appends none; when
\* the run called the gate, the record before its 'question' record is the
\* 'command' record of that call.
C20_OneQuestionRecordPerRun ==
    [][/\ QuestionRecorded <=> RunEnds
       /\ RunEnds =>
             /\ inserted'[Len(inserted')].input = question
             /\ inserted'[Len(inserted')].output = returned'.result.answer
             /\ SubSeq(inserted', 1, Len(inserted)) = inserted
             /\ conversation_history'[Len(conversation_history')] =
                    inserted'[Len(inserted')]
             /\ gate_calls = 1 =>
                    /\ inserted[Len(inserted)].type = "command"
                    /\ inserted[Len(inserted)].input = gate.command]_vars

C20_Witness ==
    /\ AnswerReturned
    /\ Failed("composition")
    /\ gate_calls = 1
    /\ Len(inserted) = Len(restart.loaded) + 2
    /\ inserted[Len(inserted) - 1].type = "command"
    /\ LastInserted.type = "question"
    /\ ~LastInserted.success

====
